---- MODULE Spec2Model ----
(***************************************************************************)
(* Sliding-piece puzzle solver (MarcusGrass/sliding_solver).               *)
(*                                                                         *)
(* The model follows src/src/solver.rs (packed positions, direct-address   *)
(* visited table, parent-linked nodes), src/src/tools.rs (the parser that  *)
(* builds Board and State) and src/src/main.rs (coordinate tuples, hash    *)
(* set, move list copied per node).                                        *)
(*                                                                         *)
(* Option<T> is written as a sequence: None is <<>> and Some(v) is <<v>>.  *)
(* A Rust tuple (a, b, c) is the TLA+ tuple <<a, b, c>>, so the Rust field *)
(* t.0 is t[1] here.  A Board is the sequence of its rows, so the Rust     *)
(* board[y][x] is board[y + 1][x + 1] here.                                *)
(***************************************************************************)
EXTENDS Integers, Sequences, FiniteSets, TLC

VARIABLES
    board,      \* solver.rs Board handed to solve_puzzle
    init,       \* solver.rs State handed to solve_puzzle
    nodes,      \* every Node made by Node::new, in creation order
    queue,      \* the VecDeque of solve_puzzle: indices into nodes
    visited,    \* the cells of the visited table that hold true
    pc,         \* "search" while the while-loop runs, "done" after return
    result,     \* the returned Option<(State, Vec<Move>)>
    main_board,    \* main.rs Board handed to its solve_puzzle
    main_init,     \* main.rs State handed to its solve_puzzle
    main_queue,    \* the VecDeque of main.rs: (state, moves) pairs
    main_visited,  \* the HashSet of main.rs
    main_pc,       \* "off" when main.rs is not run, else "search" or "done"
    main_result,   \* the Option<Solution> returned by main.rs
    cur,        \* the State the move generator is applied to, apart from a search
    last,       \* the move that gave cur and the State it was applied to
    v2_state,   \* mainv2.rs State that its move_piece is applied to
    v2_last,    \* the last call of mainv2.rs move_piece: arguments and results
    pack_in,    \* a cell <<x, y>> to pack, or a Position to unpack
    pack_out    \* the results of packing and unpacking pack_in

solver_vars == <<board, init, nodes, queue, visited, pc, result>>
main_vars == <<main_board, main_init, main_queue, main_visited, main_pc, main_result>>
walk_vars == <<cur, last>>
v2_vars == <<v2_state, v2_last>>
pack_vars == <<pack_in, pack_out>>
vars == <<solver_vars, main_vars, walk_vars, v2_vars, pack_vars>>

----------------------------------------------------------------------------
(* Bounds of the model *)

MaxSide == 3        \* longer side of the boards drawn by Init
MaxBlockers == 2    \* most Blocker cells on a board drawn by Init

----------------------------------------------------------------------------
(* Option, small helpers *)

None == <<>>
Some(v) == <<v>>
IsSome(o) == o # <<>>
Unwrap(o) == o[1]

RECURSIVE Reverse(_)
Reverse(s) == IF s = <<>> THEN <<>> ELSE Reverse(Tail(s)) \o <<Head(s)>>

U8 == 256

\* a let-binding: body(x) with x bound to the value of v, which is computed
\* once however often the body uses it
Let(v, body(_)) == CHOOSE r \in {body(x) : x \in {v}} : TRUE

----------------------------------------------------------------------------
(* solver.rs: types *)

Direction == {"Up", "Down", "Left", "Right"}
PieceType == {"HelperOne", "HelperTwo", "Main"}

\* Node::new
NewNode(m, state, prev) == [m |-> m, state |-> state, prev |-> prev]

pos_to_x(pos) == pos \div 16

pos_to_y(pos) == pos % 16

\* variant: x is shifted by three bits, not four
xy_to_pos_shift_three(x, y) == ((x * 8) + y) % U8

xy_to_pos(x, y) == ((x * 16) + y) % U8

----------------------------------------------------------------------------
(* solver.rs: the move generator *)

\* variant: the collision with the other pieces is not checked
try_move_no_collision(pos, dir, b, state) ==
    LET x == pos_to_x(pos)
        y == pos_to_y(pos)
        out_of_bounds ==
            \/ (y = 0 /\ dir = "Up")
            \/ (x = 0 /\ dir = "Left")
            \/ (y + 1 >= Len(b) /\ dir = "Down")
            \/ (x + 1 >= Len(b[1]) /\ dir = "Right")
        nx == CASE dir = "Left" -> x - 1
                [] dir = "Right" -> x + 1
                [] OTHER -> x
        ny == CASE dir = "Up" -> y - 1
                [] dir = "Down" -> y + 1
                [] OTHER -> y
    IN  IF out_of_bounds THEN None
        ELSE IF b[ny + 1][nx + 1] = "Blocker" THEN None
        ELSE Some(xy_to_pos(nx, ny))

\* variant: a Blocker cell is stepped on like an Empty one
try_move_through_blockers(pos, dir, b, state) ==
    LET x == pos_to_x(pos)
        y == pos_to_y(pos)
        out_of_bounds ==
            \/ (y = 0 /\ dir = "Up")
            \/ (x = 0 /\ dir = "Left")
            \/ (y + 1 >= Len(b) /\ dir = "Down")
            \/ (x + 1 >= Len(b[1]) /\ dir = "Right")
        nx == CASE dir = "Left" -> x - 1
                [] dir = "Right" -> x + 1
                [] OTHER -> x
        ny == CASE dir = "Up" -> y - 1
                [] dir = "Down" -> y + 1
                [] OTHER -> y
        npos == xy_to_pos(nx, ny)
    IN  IF out_of_bounds THEN None
        ELSE IF npos = state[1] \/ npos = state[2] \/ npos = state[3] THEN None
        ELSE Some(npos)

try_move(pos, dir, b, state) ==
    LET x == pos_to_x(pos)
        y == pos_to_y(pos)
        out_of_bounds ==
            \/ (y = 0 /\ dir = "Up")
            \/ (x = 0 /\ dir = "Left")
            \/ (y + 1 >= Len(b) /\ dir = "Down")
            \/ (x + 1 >= Len(b[1]) /\ dir = "Right")
        nx == CASE dir = "Left" -> x - 1
                [] dir = "Right" -> x + 1
                [] OTHER -> x
        ny == CASE dir = "Up" -> y - 1
                [] dir = "Down" -> y + 1
                [] OTHER -> y
        npos == xy_to_pos(nx, ny)
    IN  IF out_of_bounds THEN None
        ELSE IF b[ny + 1][nx + 1] = "Blocker" THEN None
        ELSE IF npos = state[1] \/ npos = state[2] \/ npos = state[3] THEN None
        ELSE Some(npos)

\* the while-let loop of next_position
RECURSIVE slide(_, _, _, _)
slide(new_pos, dir, b, state) ==
    Let(new_pos, LAMBDA at :
        Let(try_move(at, dir, b, state), LAMBDA step :
            IF IsSome(step) THEN slide(Unwrap(step), dir, b, state) ELSE at))

\* variant: a single step, without the while-let loop
next_position_one_step(b, state, pos, dir) == try_move(pos, dir, b, state)

\* variant: a piece blocked on its first step stays where it is, as a move
next_position_stay(b, state, pos, dir) ==
    Let(try_move(pos, dir, b, state), LAMBDA first :
        IF IsSome(first) THEN Some(slide(Unwrap(first), dir, b, state))
        ELSE Some(pos))

next_position(b, state, pos, dir) ==
    Let(try_move(pos, dir, b, state), LAMBDA first :
        IF IsSome(first) THEN Some(slide(Unwrap(first), dir, b, state)) ELSE None)

\* variant: goal_found is taken from the resting cell alone
move_piece_flag_from_cell(b, state, piece, dir) ==
    LET start_pos == CASE piece = "Main" -> state[1]
                       [] piece = "HelperOne" -> state[2]
                       [] piece = "HelperTwo" -> state[3]
    IN  Let(next_position(b, state, start_pos, dir), LAMBDA np :
            LET pos == Unwrap(np)
                goal_found ==
                    IF b[pos_to_y(pos) + 1][pos_to_x(pos) + 1] = "Goal"
                    THEN 1 ELSE 0
            IN  IF ~IsSome(np) THEN None
                ELSE Some(CASE piece = "Main" ->
                                   <<pos, state[2], state[3], goal_found>>
                            [] piece = "HelperOne" ->
                                   <<state[1], pos, state[3], state[4]>>
                            [] piece = "HelperTwo" ->
                                   <<state[1], state[2], pos, state[4]>>))

\* variant: a helper that comes to rest on the Goal sets goal_found too
move_piece_any_piece_sets_flag(b, state, piece, dir) ==
    LET start_pos == CASE piece = "Main" -> state[1]
                       [] piece = "HelperOne" -> state[2]
                       [] piece = "HelperTwo" -> state[3]
    IN  Let(next_position(b, state, start_pos, dir), LAMBDA np :
            LET pos == Unwrap(np)
                goal_found ==
                    IF state[4] = 1
                       \/ b[pos_to_y(pos) + 1][pos_to_x(pos) + 1] = "Goal"
                    THEN 1 ELSE 0
            IN  IF ~IsSome(np) THEN None
                ELSE Some(CASE piece = "Main" ->
                                   <<pos, state[2], state[3], goal_found>>
                            [] piece = "HelperOne" ->
                                   <<state[1], pos, state[3], goal_found>>
                            [] piece = "HelperTwo" ->
                                   <<state[1], state[2], pos, goal_found>>))

\* variant: goal_found is set as well when the main piece slides across the
\* Goal cell without resting on it
move_piece_flag_on_pass(b, state, piece, dir) ==
    LET start_pos == CASE piece = "Main" -> state[1]
                       [] piece = "HelperOne" -> state[2]
                       [] piece = "HelperTwo" -> state[3]
        Between(p, q) == IF p <= q THEN p..q ELSE q..p
    IN  Let(next_position(b, state, start_pos, dir), LAMBDA np :
            LET pos == Unwrap(np)
                goal_found ==
                    IF state[4] = 1
                       \/ \E x \in Between(pos_to_x(start_pos), pos_to_x(pos)) :
                          \E y \in Between(pos_to_y(start_pos), pos_to_y(pos)) :
                              b[y + 1][x + 1] = "Goal"
                    THEN 1 ELSE 0
            IN  IF ~IsSome(np) THEN None
                ELSE Some(CASE piece = "Main" ->
                                   <<pos, state[2], state[3], goal_found>>
                            [] piece = "HelperOne" ->
                                   <<state[1], pos, state[3], state[4]>>
                            [] piece = "HelperTwo" ->
                                   <<state[1], state[2], pos, state[4]>>))

move_piece(b, state, piece, dir) ==
    LET start_pos == CASE piece = "Main" -> state[1]
                       [] piece = "HelperOne" -> state[2]
                       [] piece = "HelperTwo" -> state[3]
    IN  Let(next_position(b, state, start_pos, dir), LAMBDA np :
            LET pos == Unwrap(np)
                goal_found ==
                    IF state[4] = 1
                       \/ b[pos_to_y(pos) + 1][pos_to_x(pos) + 1] = "Goal"
                    THEN 1 ELSE 0
            IN  IF ~IsSome(np) THEN None
                ELSE Some(CASE piece = "Main" ->
                                   <<pos, state[2], state[3], goal_found>>
                            [] piece = "HelperOne" ->
                                   <<state[1], pos, state[3], state[4]>>
                            [] piece = "HelperTwo" ->
                                   <<state[1], state[2], pos, state[4]>>))

PieceOrder == <<"Main", "HelperOne", "HelperTwo">>
DirectionOrder == <<"Left", "Right", "Up", "Down">>

\* the (piece, direction) pairs in the order of the two nested for-loops
LoopOrder ==
    [i \in 1..(Len(PieceOrder) * Len(DirectionOrder)) |->
        <<PieceOrder[((i - 1) \div Len(DirectionOrder)) + 1],
          DirectionOrder[((i - 1) % Len(DirectionOrder)) + 1]>>]

\* the two nested for-loops from their i-th iteration on: a legal move and
\* its state are pushed on states
RECURSIVE states_from(_, _, _)
states_from(b, state, i) ==
    IF i > Len(LoopOrder) THEN <<>>
    ELSE Let(move_piece(b, state, LoopOrder[i][1], LoopOrder[i][2]), LAMBDA moved :
             (IF IsSome(moved) THEN << <<LoopOrder[i], Unwrap(moved)>> >> ELSE <<>>)
                 \o states_from(b, state, i + 1))

\* variant: the loops are nested the other way round, directions outermost
neighbourhood_direction_major(b, state) ==
    LET order == [i \in 1..(Len(PieceOrder) * Len(DirectionOrder)) |->
                     <<PieceOrder[((i - 1) % Len(PieceOrder)) + 1],
                       DirectionOrder[((i - 1) \div Len(PieceOrder)) + 1]>>]
        legal == SelectSeq(order,
                     LAMBDA mv : IsSome(move_piece(b, state, mv[1], mv[2])))
    IN  [i \in 1..Len(legal) |->
            <<legal[i], Unwrap(move_piece(b, state, legal[i][1], legal[i][2]))>>]

neighbourhood(b, state) == states_from(b, state, 1)

----------------------------------------------------------------------------
(* solver.rs: Node::moves *)

\* the moves in the order the while-let loop pushes them (leaf first)
RECURSIVE pushed(_, _)
pushed(ns, i) ==
    IF IsSome(ns[i].prev)
    THEN <<Unwrap(ns[i].m)>> \o pushed(ns, Unwrap(ns[i].prev))
    ELSE <<>>

\* variant: the moves are returned as pushed, without moves.reverse()
moves_unreversed(ns, i) == pushed(ns, i)

moves(ns, i) == Reverse(pushed(ns, i))

----------------------------------------------------------------------------
(* solver.rs: solve_puzzle *)

\* let mut visited = [[[[false; 2]; 160]; 160]; 160]: visited[a] is the set
\* of <<b, c, d>> for which visited[a][b][c][d] holds true
TableSize == 160
EmptyTable == [a \in 0..(TableSize - 1) |-> {}]

\* the four indices of visited[..][..][..][..] are inside the array
InTable(state) ==
    /\ state[1] < TableSize
    /\ state[2] < TableSize
    /\ state[3] < TableSize
    /\ state[4] < 2

\* variant: the goal_visited index is ignored when the table is read
IsVisited_any_flag(table, state) ==
    \E g \in {0, 1} : <<state[2], state[3], g>> \in table[state[1]]

IsVisited(table, state) == <<state[2], state[3], state[4]>> \in table[state[1]]

MarkVisited(table, state) ==
    [table EXCEPT ![state[1]] = @ \cup {<<state[2], state[3], state[4]>>}]

\* variant: the test of the Start cell is left out
sol_found_flag_only(b, state) == state[4] = 1

\* variant: the test of goal_visited is left out
sol_found_start_only(b, state) ==
    b[pos_to_y(state[1]) + 1][pos_to_x(state[1]) + 1] = "Start"

sol_found(b, state) ==
    state[4] = 1 /\ b[pos_to_y(state[1]) + 1][pos_to_x(state[1]) + 1] = "Start"

\* variant: push_front instead of push_back
enqueue_push_front(succ, parent, acc) ==
    IF IsVisited(acc.visited, succ[2]) THEN acc
    ELSE [acc EXCEPT
          !.nodes = Append(@, NewNode(Some(succ[1]), succ[2], Some(parent))),
          !.queue = <<Len(acc.nodes) + 1>> \o @,
          !.visited = MarkVisited(@, succ[2])]

\* the body of the for-loop over neighbourhood(board, &rc_node.state), for
\* the successor succ = (move_, state): continue when the state is visited,
\* else push a node on the back of the queue and mark the state.  acc
\* carries the nodes, the queue and the visited table through the loop
enqueue(succ, parent, acc) ==
    IF IsVisited(acc.visited, succ[2]) THEN acc
    ELSE [acc EXCEPT
          !.nodes = Append(@, NewNode(Some(succ[1]), succ[2], Some(parent))),
          !.queue = Append(@, Len(acc.nodes) + 1),
          !.visited = MarkVisited(@, succ[2])]

\* variant: break instead of continue on a visited successor
RECURSIVE enqueue_all_break(_, _, _, _)
enqueue_all_break(succs, k, parent, acc) ==
    IF k > Len(succs) THEN acc
    ELSE Let(acc, LAMBDA a :
             IF IsVisited(a.visited, succs[k][2]) THEN a
             ELSE enqueue_all_break(succs, k + 1, parent,
                      enqueue(succs[k], parent, a)))

\* the for-loop, from its k-th iteration on
RECURSIVE enqueue_all(_, _, _, _)
enqueue_all(succs, k, parent, acc) ==
    IF k > Len(succs) THEN acc
    ELSE Let(acc, LAMBDA a :
             enqueue_all(succs, k + 1, parent, enqueue(succs[k], parent, a)))

\* variant: the front node is read and left in the queue
front_without_pop(q) ==
    IF q = <<>> THEN None ELSE Some([front |-> Head(q), rest |-> q])

\* variant: pop_back, the node pushed last is taken
pop_back(q) ==
    IF q = <<>> THEN None
    ELSE Some([front |-> q[Len(q)], rest |-> SubSeq(q, 1, Len(q) - 1)])

\* queue.pop_front(): the front node and the queue without it
pop_front(q) ==
    IF q = <<>> THEN None ELSE Some([front |-> Head(q), rest |-> Tail(q)])

\* the local state of solve_puzzle
Now ==
    [nodes |-> nodes, queue |-> queue, visited |-> visited, pc |-> pc,
     result |-> result]

\* every index of a read of visited[..][..][..][..] in the for-loop is
\* inside the array
IndicesInTable(succs) == \A k \in 1..Len(succs) : InTable(succs[k][2])

\* one iteration of `while let Some(node) = queue.pop_front()`, from the
\* state s of solve_puzzle: None when the queue is empty, Some(..) when the
\* node satisfies the goal predicate, else the for-loop over its
\* neighbourhood, which panics on an index outside the table
iteration(b, s) ==
    Let(pop_front(s.queue), LAMBDA popped :
        IF ~IsSome(popped)
        THEN [s EXCEPT !.result = None, !.pc = "done"]
        ELSE Let(Unwrap(popped).front, LAMBDA node :
             Let(s.nodes[node].state, LAMBDA state :
                 IF sol_found(b, state)
                 THEN [s EXCEPT
                       !.queue = Unwrap(popped).rest,
                       !.result = Some([state |-> state,
                                        moves |-> moves(s.nodes, node)]),
                       !.pc = "done"]
                 ELSE Let(neighbourhood(b, state), LAMBDA succs :
                          IF IndicesInTable(succs)
                          THEN enqueue_all(succs, 1, node,
                                   [s EXCEPT !.queue = Unwrap(popped).rest])
                          ELSE [s EXCEPT !.pc = "panic"]))))

\* solve_puzzle goes from its state to s
Becomes(s) ==
    /\ nodes' = s.nodes
    /\ queue' = s.queue
    /\ visited' = s.visited
    /\ pc' = s.pc
    /\ result' = s.result
    /\ UNCHANGED <<board, init, main_vars, walk_vars, v2_vars, pack_vars>>

\* loop iteration whose dequeued node satisfies the goal predicate
Return ==
    /\ pc = "search"
    /\ IsSome(pop_front(queue))
    /\ \E state \in {nodes[Unwrap(pop_front(queue)).front].state} :
           sol_found(board, state)
    /\ \E s \in {iteration(board, Now)} : Becomes(s)

\* loop iteration that expands the dequeued node
Expand ==
    /\ pc = "search"
    /\ IsSome(pop_front(queue))
    /\ \E state \in {nodes[Unwrap(pop_front(queue)).front].state} :
           /\ ~sol_found(board, state)
           /\ \E succs \in {neighbourhood(board, state)} : IndicesInTable(succs)
    /\ \E s \in {iteration(board, Now)} : Becomes(s)

\* the while-let fails on the empty queue: None is returned
Exhausted ==
    /\ pc = "search"
    /\ ~IsSome(pop_front(queue))
    /\ \E s \in {iteration(board, Now)} : Becomes(s)

\* most iterations of the while-let loop that Search runs in one step
BurstLen == 16384

\* n iterations of the while-let loop, or fewer when the search ends: the
\* first half of them, then the others
RECURSIVE run(_, _, _)
run(b, s, n) ==
    IF n = 0 \/ s.pc # "search" THEN s
    ELSE IF n = 1 THEN iteration(b, s)
    ELSE run(b, run(b, s, n \div 2), n - (n \div 2))

\* a call of solve_puzzle, run to its return (in steps of BurstLen
\* iterations when the search is longer)
Search ==
    /\ pc = "search"
    /\ \E s \in {run(board, Now, BurstLen)} : Becomes(s)

----------------------------------------------------------------------------
(* tools.rs: puzzle_from_string *)

\* str::parse for an unsigned decimal number given as its digits
RECURSIVE parse(_)
parse(digits) ==
    IF digits = <<>> THEN 0
    ELSE parse(SubSeq(digits, 1, Len(digits) - 1)) * 10 + digits[Len(digits)]

\* one iteration of the for-loop over items.chunks(3)
parse_chunk(acc, parts) ==
    LET x == parse(parts[2])
        y == parse(parts[3])
        packed == (((x * 16) % U8) + y) % U8
    IN  CASE parts[1] = "main_robot" ->
               [acc EXCEPT !.board[y + 1][x + 1] = "Start", !.state[1] = packed]
          [] parts[1] = "helper_robot" ->
               IF acc.first_helper_found
               THEN [acc EXCEPT !.state[2] = packed]
               ELSE [acc EXCEPT !.first_helper_found = TRUE, !.state[3] = packed]
          [] parts[1] = "goal" -> [acc EXCEPT !.board[y + 1][x + 1] = "Goal"]
          [] parts[1] = "blocker" -> [acc EXCEPT !.board[y + 1][x + 1] = "Blocker"]
          [] OTHER -> acc

RECURSIVE parse_chunks(_, _, _)
parse_chunks(chunks, k, acc) ==
    IF k > Len(chunks) THEN acc
    ELSE parse_chunks(chunks, k + 1, parse_chunk(acc, chunks[k]))

\* input is given as items.chunks(3): a sequence of <<word, digits, digits>>
puzzle_from_string(chunks) ==
    LET w == parse(chunks[1][2])
        h == parse(chunks[1][3])
        acc == parse_chunks(chunks, 1,
                   [board |-> [y \in 1..h |-> [x \in 1..w |-> "Empty"]],
                    state |-> <<0, 0, 0, 0>>,
                    first_helper_found |-> FALSE])
    IN  <<acc.board, acc.state>>

----------------------------------------------------------------------------
(* main.rs: the move generator over (x, y) coordinates *)

\* type Board = [[BoardPiece; 8]; 8]
MainBoardSize == 8

main_step(pos, dir) ==
    CASE dir = "Up" -> <<pos[1], pos[2] - 1>>
      [] dir = "Down" -> <<pos[1], pos[2] + 1>>
      [] dir = "Left" -> <<pos[1] - 1, pos[2]>>
      [] dir = "Right" -> <<pos[1] + 1, pos[2]>>

main_try_move(pos, b, state) ==
    LET ix == pos[1]
        iy == pos[2]
        out_of_bounds == ix < 0 \/ ix >= Len(b[1]) \/ iy < 0 \/ iy >= Len(b)
    IN  IF out_of_bounds THEN None
        ELSE IF b[iy + 1][ix + 1] \in {"Blocker", "Helper", "Main"} THEN None
        ELSE IF \/ <<state[1], state[2]>> = <<ix, iy>>
                \/ <<state[3], state[4]>> = <<ix, iy>>
                \/ <<state[5], state[6]>> = <<ix, iy>>
             THEN None
        ELSE Some(pos)

\* the while-let loop of next_position
RECURSIVE main_slide(_, _, _, _)
main_slide(new_pos, dir, b, state) ==
    LET step == main_try_move(main_step(new_pos, dir), b, state)
    IN  IF IsSome(step) THEN main_slide(Unwrap(step), dir, b, state) ELSE new_pos

main_next_position(b, state, pos, direction) ==
    LET new_pos == main_step(pos, direction)
    IN  IF IsSome(main_try_move(new_pos, b, state))
        THEN Some(main_slide(new_pos, direction, b, state))
        ELSE None

main_move_piece(b, state, piece_type, direction) ==
    LET start_pos == CASE piece_type = "Main" -> <<state[1], state[2]>>
                       [] piece_type = "HelperOne" -> <<state[3], state[4]>>
                       [] piece_type = "HelperTwo" -> <<state[5], state[6]>>
        np == main_next_position(b, state, start_pos, direction)
        pos == Unwrap(np)
        goal_found == state[7] \/ b[pos[2] + 1][pos[1] + 1] = "Goal"
    IN  IF ~IsSome(np) THEN None
        ELSE Some(CASE piece_type = "Main" ->
                         <<pos[1], pos[2], state[3], state[4], state[5], state[6],
                           goal_found>>
                    [] piece_type = "HelperOne" ->
                         <<state[1], state[2], pos[1], pos[2], state[5], state[6],
                           state[7]>>
                    [] piece_type = "HelperTwo" ->
                         <<state[1], state[2], state[3], state[4], pos[1], pos[2],
                           state[7]>>)

\* variant: the directions are tried in the order the enum declares them
main_neighbourhood_enum_order(b, state) ==
    LET order == [i \in 1..12 |->
                     <<PieceOrder[((i - 1) \div 4) + 1],
                       <<"Up", "Down", "Left", "Right">>[((i - 1) % 4) + 1]>>]
        legal == SelectSeq(order,
                     LAMBDA mv : IsSome(main_move_piece(b, state, mv[1], mv[2])))
    IN  [i \in 1..Len(legal) |->
            <<legal[i], Unwrap(main_move_piece(b, state, legal[i][1], legal[i][2]))>>]

main_neighbourhood(b, state) ==
    LET legal == SelectSeq(LoopOrder,
                     LAMBDA mv : IsSome(main_move_piece(b, state, mv[1], mv[2])))
    IN  [i \in 1..Len(legal) |->
            <<legal[i], Unwrap(main_move_piece(b, state, legal[i][1], legal[i][2]))>>]

----------------------------------------------------------------------------
(* main.rs: solve_puzzle *)

main_sol_found(b, state) == state[7] /\ b[state[2] + 1][state[1] + 1] = "Start"

\* the body of the for-loop over neighbourhood(board, state), for the
\* successor succ = (move_, state)
main_enqueue(succ, moves_, acc) ==
    IF succ[2] \in acc.visited THEN acc
    ELSE [queue |-> Append(acc.queue, <<succ[2], Append(moves_, succ[1])>>),
          visited |-> acc.visited \cup {succ[2]}]

\* the for-loop, from its k-th iteration on
RECURSIVE main_enqueue_all(_, _, _, _)
main_enqueue_all(succs, k, moves_, acc) ==
    IF k > Len(succs) THEN acc
    ELSE Let(acc, LAMBDA a :
             main_enqueue_all(succs, k + 1, moves_, main_enqueue(succs[k], moves_, a)))

\* main.rs is run on a puzzle once solver.rs has returned on it
MainReturn ==
    /\ pc = "done"
    /\ main_pc = "search"
    /\ main_queue # <<>>
    /\ LET state == Head(main_queue)[1]
           moves_ == Head(main_queue)[2]
       IN  /\ main_sol_found(main_board, state)
           /\ main_result' = Some([state |-> state, moves |-> moves_,
                                   visited_count |-> Cardinality(main_visited)])
    /\ main_queue' = Tail(main_queue)
    /\ main_pc' = "done"
    /\ UNCHANGED <<solver_vars, walk_vars, v2_vars, pack_vars, main_board, main_init, main_visited>>

MainExpand ==
    /\ pc = "done"
    /\ main_pc = "search"
    /\ main_queue # <<>>
    /\ LET state == Head(main_queue)[1]
           moves_ == Head(main_queue)[2]
           acc == main_enqueue_all(main_neighbourhood(main_board, state), 1, moves_,
                      [queue |-> Tail(main_queue), visited |-> main_visited])
       IN  /\ ~main_sol_found(main_board, state)
           /\ main_queue' = acc.queue
           /\ main_visited' = acc.visited
    /\ UNCHANGED <<solver_vars, walk_vars, v2_vars, pack_vars, main_board, main_init, main_pc, main_result>>

MainExhausted ==
    /\ pc = "done"
    /\ main_pc = "search"
    /\ main_queue = <<>>
    /\ main_result' = None
    /\ main_pc' = "done"
    /\ UNCHANGED <<solver_vars, walk_vars, v2_vars, pack_vars, main_board, main_init, main_queue, main_visited>>

----------------------------------------------------------------------------
(* main.rs: puzzle_from_string *)

\* one iteration of the for-loop over items.chunks(3)
main_parse_chunk(acc, parts) ==
    LET x == parse(parts[2])
        y == parse(parts[3])
    IN  CASE parts[1] = "main_robot" ->
               [acc EXCEPT !.state[1] = x, !.state[2] = y,
                           !.board[y + 1][x + 1] = "Start"]
          [] parts[1] = "helper_robot" ->
               IF acc.first_helper_found
               THEN [acc EXCEPT !.state[5] = x, !.state[6] = y]
               ELSE [acc EXCEPT !.first_helper_found = TRUE,
                                !.state[3] = x, !.state[4] = y]
          [] parts[1] = "goal" -> [acc EXCEPT !.board[y + 1][x + 1] = "Goal"]
          [] parts[1] = "blocker" -> [acc EXCEPT !.board[y + 1][x + 1] = "Blocker"]
          [] OTHER -> acc

RECURSIVE main_parse_chunks(_, _, _)
main_parse_chunks(chunks, k, acc) ==
    IF k > Len(chunks) THEN acc
    ELSE main_parse_chunks(chunks, k + 1, main_parse_chunk(acc, chunks[k]))

main_puzzle_from_string(chunks) ==
    LET acc == main_parse_chunks(chunks, 1,
                   [board |-> [y \in 1..MainBoardSize |->
                                  [x \in 1..MainBoardSize |-> "Empty"]],
                    state |-> <<0, 0, 0, 0, 0, 0, FALSE>>,
                    first_helper_found |-> FALSE])
    IN  <<acc.board, acc.state>>

----------------------------------------------------------------------------
(* Inputs *)

\* the decimal digits of n < 100, as the text of a number field
Digits(n) == IF n < 10 THEN <<n>> ELSE <<n \div 10, n % 10>>

Chunk(word, x, y) == <<word, Digits(x), Digits(y)>>

Cells(w, h) == (0..(w - 1)) \X (0..(h - 1))

\* the cells of a w x h board in row-major order
RowMajor(w, h) == [i \in 1..(w * h) |-> <<(i - 1) % w, (i - 1) \div w>>]

\* the cells of S in row-major order
InOrder(S, w, h) == SelectSeq(RowMajor(w, h), LAMBDA c : c \in S)

BlockerChunks(S, w, h) ==
    LET s == InOrder(S, w, h)
    IN  [i \in 1..Len(s) |-> Chunk("blocker", s[i][1], s[i][2])]

\* the boards are two cells across and up to MaxSide cells long, either way
BoardSizes == {<<n, 2>> : n \in 2..MaxSide} \cup {<<2, n>> : n \in 2..MaxSide}

\* a valid puzzle on a w x h board: the main piece on one cell, the goal on
\* another, at most MaxBlockers blockers elsewhere, HelperOne on the first
\* and HelperTwo on the last cell (row-major) that is left free
PuzzlesOn(w, h) ==
    UNION { UNION {
        { [w |-> w, h |-> h, main |-> m, goal |-> g, blockers |-> bl,
           helper_one |-> InOrder(Cells(w, h) \ (bl \cup {m}), w, h)[1],
           helper_two |-> InOrder(Cells(w, h) \ (bl \cup {m}), w, h)
                              [Cardinality(Cells(w, h) \ (bl \cup {m}))]]
          : bl \in { s \in SUBSET (Cells(w, h) \ {m, g}) :
                         /\ Cardinality(s) <= MaxBlockers
                         /\ Cardinality(Cells(w, h) \ (s \cup {m})) >= 2 } }
        : g \in Cells(w, h) \ {m} }
        : m \in Cells(w, h) }

Puzzles == UNION { PuzzlesOn(d[1], d[2]) : d \in BoardSizes }

\* the same puzzle in the top left corner of an 8 x 8 board, walled off from
\* the rest of the board by blockers along its right and lower side
OnMainBoard(p) ==
    [p EXCEPT !.w = MainBoardSize, !.h = MainBoardSize,
              !.blockers = p.blockers
                  \cup {<<p.w, y>> : y \in 0..(p.h - 1)}
                  \cup {<<x, p.h>> : x \in 0..(p.w - 1)}]

\* the text that tools.rs reads: its first helper_robot becomes HelperTwo
Text(p) ==
    <<Chunk("map", p.w, p.h)>> \o BlockerChunks(p.blockers, p.w, p.h)
    \o <<Chunk("goal", p.goal[1], p.goal[2]),
         Chunk("main_robot", p.main[1], p.main[2]),
         Chunk("helper_robot", p.helper_two[1], p.helper_two[2]),
         Chunk("helper_robot", p.helper_one[1], p.helper_one[2])>>

\* the text that main.rs reads: its first helper_robot becomes HelperOne
MainText(p) ==
    <<Chunk("map", p.w, p.h)>> \o BlockerChunks(p.blockers, p.w, p.h)
    \o <<Chunk("goal", p.goal[1], p.goal[2]),
         Chunk("main_robot", p.main[1], p.main[2]),
         Chunk("helper_robot", p.helper_one[1], p.helper_one[2]),
         Chunk("helper_robot", p.helper_two[1], p.helper_two[2])>>

----------------------------------------------------------------------------
(* The searches as a state machine *)

\* solver.rs solve_puzzle up to the first test of the while-loop
Start(puzzle) ==
    /\ board = puzzle[1]
    /\ init = puzzle[2]
    /\ nodes = <<NewNode(None, puzzle[2], None)>>
    /\ queue = <<1>>
    /\ visited = EmptyTable
    /\ pc = "search"
    /\ result = None

\* main.rs solve_puzzle up to the first test of the while-loop
MainStart(puzzle) ==
    /\ main_board = puzzle[1]
    /\ main_init = puzzle[2]
    /\ main_queue = <<<<puzzle[2], <<>>>>>>
    /\ main_visited = {}
    /\ main_pc = "search"
    /\ main_result = None

\* main.rs is not run
MainOff ==
    /\ main_board = <<>>
    /\ main_init = <<>>
    /\ main_queue = <<>>
    /\ main_visited = {}
    /\ main_pc = "off"
    /\ main_result = None

\* the move generator is not applied apart from the search
WalkOff ==
    /\ cur = <<>>
    /\ last = None

\* mainv2.rs is not run
V2Off ==
    /\ v2_state = <<>>
    /\ v2_last = None

\* no position is packed or unpacked apart from the search
PackOff ==
    /\ pack_in = <<>>
    /\ pack_out = None

\* only solver.rs and main.rs run
OthersOff == WalkOff /\ V2Off /\ PackOff

Init == \E p \in Puzzles : Start(puzzle_from_string(Text(p))) /\ MainOff /\ OthersOff

Next == Return \/ Expand \/ Exhausted

Spec == Init /\ [][Next]_vars

\* every search ends: the loop of solve_puzzle keeps running
FairSpec == Spec /\ WF_vars(Next)

----------------------------------------------------------------------------
(* The fixture puzzles *)

\* spec.md section 8: main (0,0), goal (2,4), helpers (7,0) and (7,1)
ScenarioPuzzle ==
    [w |-> 8, h |-> 8, main |-> <<0, 0>>, goal |-> <<2, 4>>,
     helper_two |-> <<7, 0>>, helper_one |-> <<7, 1>>,
     blockers |-> {<<2, 0>>, <<5, 0>>, <<6, 0>>, <<3, 3>>, <<2, 5>>, <<3, 6>>,
                   <<1, 7>>, <<4, 7>>}]

\* the input of test::solver and of main in main.rs
FixturePuzzle ==
    [w |-> 8, h |-> 8, main |-> <<5, 1>>, goal |-> <<4, 1>>,
     helper_one |-> <<1, 0>>, helper_two |-> <<1, 3>>,
     blockers |-> {<<7, 0>>, <<1, 1>>, <<3, 1>>, <<6, 1>>, <<2, 2>>, <<6, 5>>,
                   <<7, 6>>, <<1, 7>>}]

InitScenario ==
    \/ \E p \in {ScenarioPuzzle, FixturePuzzle} :
           Start(puzzle_from_string(Text(p))) /\ MainOff /\ OthersOff
    \/ Init

SpecScenario == InitScenario /\ [][Search]_vars

----------------------------------------------------------------------------
(* Both engines on the same 8 x 8 puzzle *)

\* both engines are handed the same board and the same piece positions
StartPair(p) ==
    /\ Start(puzzle_from_string(Text(p)))
    /\ MainStart(main_puzzle_from_string(MainText(p)))
    /\ OthersOff

InitPair ==
    \/ \E p \in Puzzles : StartPair(OnMainBoard(p))
    \/ StartPair(FixturePuzzle)

NextPair == Return \/ Expand \/ Exhausted \/ MainReturn \/ MainExpand \/ MainExhausted

SpecPair == InitPair /\ [][NextPair]_vars

----------------------------------------------------------------------------
(* The move generator on its own: neighbourhood applied again and again,   *)
(* from the parsed state of a puzzle with goal_visited unset or set.  The   *)
(* board of main.rs holds the same puzzle in its top left corner.           *)

InitMoves ==
    \E p \in Puzzles : \E goal_visited \in {0, 1} :
        /\ board = puzzle_from_string(Text(p))[1]
        /\ init = puzzle_from_string(Text(p))[2]
        /\ cur = [puzzle_from_string(Text(p))[2] EXCEPT ![4] = goal_visited]
        /\ last = None
        /\ nodes = <<>>
        /\ queue = <<>>
        /\ visited = EmptyTable
        /\ pc = "off"
        /\ result = None
        /\ main_board = main_puzzle_from_string(MainText(OnMainBoard(p)))[1]
        /\ main_init = <<>>
        /\ main_queue = <<>>
        /\ main_visited = {}
        /\ main_pc = "off"
        /\ main_result = None
        /\ V2Off
        /\ PackOff

\* one of the successors that neighbourhood emits for cur is taken
Move ==
    /\ pc = "off"
    /\ \E succs \in {neighbourhood(board, cur)} :
           \E k \in 1..Len(succs) :
               /\ cur' = succs[k][2]
               /\ last' = Some([move |-> succs[k][1], from |-> cur])
    /\ UNCHANGED <<solver_vars, main_vars, v2_vars, pack_vars>>

SpecMoves == InitMoves /\ [][Move]_vars

----------------------------------------------------------------------------
(* Notions the properties are stated with *)

AllMoves == PieceType \X Direction

CellKind(b, pos) == b[pos_to_y(pos) + 1][pos_to_x(pos) + 1]

\* goal_visited is set and the main piece stands on the Start cell
GoalPredicate(b, state) == state[4] = 1 /\ CellKind(b, state[1]) = "Start"

\* the states one slide move away from a state of S
SlidesFrom(b, S) ==
    UNION { { Unwrap(move_piece(b, s, mv[1], mv[2])) :
                mv \in { m \in AllMoves : IsSome(move_piece(b, s, m[1], m[2])) } }
            : s \in S }

\* the least number of slide moves that lead from a state of the frontier to
\* a state that satisfies the goal predicate, n moves having been made to
\* reach the frontier; -1 when no such state can be reached
RECURSIVE ShortestToGoal(_, _, _, _)
ShortestToGoal(b, frontier, seen, n) ==
    IF \E s \in frontier : GoalPredicate(b, s) THEN n
    ELSE IF frontier = {} THEN -1
    ELSE LET next == SlidesFrom(b, frontier) \ seen
         IN  ShortestToGoal(b, next, seen \cup next, n + 1)

Shortest == ShortestToGoal(board, {init}, {init}, 0)

\* the moves applied one after the other through move_piece; None as soon as
\* one of them produces no successor
RECURSIVE Replay(_, _, _)
Replay(b, state, ms) ==
    IF ms = <<>> THEN Some(state)
    ELSE LET next == move_piece(b, state, Head(ms)[1], Head(ms)[2])
         IN  IF IsSome(next) THEN Replay(b, Unwrap(next), Tail(ms)) ELSE None

Solved == pc = "done" /\ IsSome(result)
Unsolved == pc = "done" /\ result = None

----------------------------------------------------------------------------
(* C1: optimality.  Whenever solve_puzzle returns a solution, its number of *)
(* moves is the least number of slide moves of any move sequence that leads *)
(* from the initial state to a state satisfying the goal predicate.         *)

C1_Optimal == Solved => Len(Unwrap(result).moves) = Shortest

\* a solution that needs more than the two moves of the main piece
C1_Witness == Solved /\ Len(Unwrap(result).moves) >= 5

----------------------------------------------------------------------------
(* C2: unsolvable detection.  solve_puzzle returns None exactly when no     *)
(* state satisfying the goal predicate can be reached from the initial      *)
(* state by slide moves; it does so too when the main piece is enclosed by  *)
(* blockers while the helpers can still move.                               *)

C2_NoneIffUnreachable == pc = "done" => (result = None <=> Shortest = -1)

\* each of the four cells next to the main piece is off the board or a Blocker
MainEnclosed ==
    LET x == pos_to_x(init[1])
        y == pos_to_y(init[1])
        Shut(cx, cy) ==
            \/ cx < 0 \/ cx >= Len(board[1]) \/ cy < 0 \/ cy >= Len(board)
            \/ board[cy + 1][cx + 1] = "Blocker"
    IN  Shut(x - 1, y) /\ Shut(x + 1, y) /\ Shut(x, y - 1) /\ Shut(x, y + 1)

\* None is returned for an enclosed main piece after helper moves were searched
C2_Witness == Unsolved /\ MainEnclosed /\ Len(nodes) > 2

----------------------------------------------------------------------------
(* C3: the terminal state of a returned solution satisfies the goal         *)
(* predicate: goal_visited is set and the main piece stands on the Start    *)
(* cell, which is the cell the main piece started from.                     *)

C3_TerminalIsGoal ==
    Solved =>
        LET state == Unwrap(result).state
        IN  /\ state[4] = 1
            /\ CellKind(board, state[1]) = "Start"
            /\ state[1] = init[1]

\* a solution in whose terminal state a helper stands elsewhere than at first
C3_Witness ==
    Solved /\ Unwrap(result).state[1] = init[1]
           /\ Unwrap(result).state[2] # init[2]

----------------------------------------------------------------------------
(* C4: path reconstruction is faithful.  The returned moves, applied in the *)
(* returned order to the initial state through move_piece, each produce a   *)
(* successor and end in the terminal state returned with them.              *)

C4_ReplayReachesTerminal ==
    Solved => Replay(board, init, Unwrap(result).moves)
                  = Some(Unwrap(result).state)

\* a solution of at least three moves in which HelperTwo is moved
C4_Witness ==
    Solved /\ Len(Unwrap(result).moves) >= 3
           /\ \E i \in 1..Len(Unwrap(result).moves) :
                  Unwrap(result).moves[i][1] = "HelperTwo"

----------------------------------------------------------------------------
(* C5: termination.  Every search ends, with a solution or with the        *)
(* frontier empty, and the number of nodes ever enqueued stays within the   *)
(* number of states: the positions of three pieces and the flag.            *)

StateCount == (Len(board) * Len(board[1])) * (Len(board) * Len(board[1]))
                  * (Len(board) * Len(board[1])) * 2

C5_Terminates == <>(pc = "done") /\ [](Len(nodes) <= StateCount)

\* a search that ran the frontier empty after it had enqueued more than ten
\* nodes
C5_Witness == pc = "done" /\ result = None /\ Len(nodes) > 10

----------------------------------------------------------------------------
(* C6: visited-once.  No state is enqueued more than once during a search: *)
(* no two nodes hold the same state, so a successor equal to the initial    *)
(* state (held by the root node) is never enqueued.                         *)

C6_VisitedOnce ==
    \A i, j \in 1..Len(nodes) : i < j => nodes[i].state # nodes[j].state

----------------------------------------------------------------------------
(* C8: the two engines agree.  On the same 8 x 8 board and the same piece  *)
(* positions, main.rs and solver.rs both report no solution, or both return *)
(* the same move sequence and the same terminal configuration.              *)

\* a solver.rs State as the coordinates and flag of a main.rs State
Coordinates(state) ==
    <<pos_to_x(state[1]), pos_to_y(state[1]), pos_to_x(state[2]),
      pos_to_y(state[2]), pos_to_x(state[3]), pos_to_y(state[3]), state[4] = 1>>

BothDone == pc = "done" /\ main_pc = "done"

C8_EnginesAgree ==
    BothDone =>
        IF IsSome(result)
        THEN /\ IsSome(main_result)
             /\ Unwrap(main_result).moves = Unwrap(result).moves
             /\ Unwrap(main_result).state = Coordinates(Unwrap(result).state)
        ELSE main_result = None

\* both engines returned a solution of at least four moves
C8_Witness ==
    BothDone /\ IsSome(result) /\ IsSome(main_result)
             /\ Len(Unwrap(main_result).moves) >= 4

----------------------------------------------------------------------------
(* C9: the 8 x 8 scenario of spec.md section 8 (main piece and Start at    *)
(* (0,0), Goal at (2,4), helpers at (7,0) and (7,1), eight blockers) has a  *)
(* solution: solve_puzzle returns Some, not None.                           *)

IsScenario ==
    /\ init = <<xy_to_pos(0, 0), xy_to_pos(7, 1), xy_to_pos(7, 0), 0>>
    /\ CellKind(board, xy_to_pos(2, 4)) = "Goal"
    /\ \A c \in ScenarioPuzzle.blockers :
           CellKind(board, xy_to_pos(c[1], c[2])) = "Blocker"

C9_ScenarioSolved == (pc = "done" /\ IsScenario) => IsSome(result)

\* the search of the scenario returned a solution that moves both helpers
C9_Witness ==
    /\ pc = "done" /\ IsScenario /\ IsSome(result)
    /\ \E i, j \in 1..Len(Unwrap(result).moves) :
           /\ Unwrap(result).moves[i][1] = "HelperOne"
           /\ Unwrap(result).moves[j][1] = "HelperTwo"

----------------------------------------------------------------------------
(* C10: a board without blockers whose Goal is next to the Start, the      *)
(* helpers standing off the line through Start and Goal.                    *)

NoBlockers ==
    \A y \in 1..Len(board) : \A x \in 1..Len(board[1]) : board[y][x] # "Blocker"

StartXY == <<pos_to_x(init[1]), pos_to_y(init[1])>>

GoalXY ==
    CHOOSE c \in Cells(Len(board[1]), Len(board)) :
        board[c[2] + 1][c[1] + 1] = "Goal"

GoalNextToStart ==
    \/ StartXY[2] = GoalXY[2] /\ StartXY[1] - GoalXY[1] \in {-1, 1}
    \/ StartXY[1] = GoalXY[1] /\ StartXY[2] - GoalXY[2] \in {-1, 1}

\* neither helper stands in the row or column that Start and Goal share
HelpersOffLine ==
    \A i \in {2, 3} :
        IF StartXY[2] = GoalXY[2]
        THEN pos_to_y(init[i]) # StartXY[2]
        ELSE pos_to_x(init[i]) # StartXY[1]

AdjacentCase == NoBlockers /\ GoalNextToStart /\ HelpersOffLine

OffBoard(x, y) == x < 0 \/ x >= Len(board[1]) \/ y < 0 \/ y >= Len(board)

\* the board ends right beyond the Goal and right behind the Start
EdgesStopBothSlides ==
    /\ OffBoard(2 * GoalXY[1] - StartXY[1], 2 * GoalXY[2] - StartXY[2])
    /\ OffBoard(2 * StartXY[1] - GoalXY[1], 2 * StartXY[2] - GoalXY[2])

TowardsGoal ==
    CASE GoalXY[1] < StartXY[1] -> "Left"
      [] GoalXY[1] > StartXY[1] -> "Right"
      [] GoalXY[2] < StartXY[2] -> "Up"
      [] OTHER -> "Down"

Opposite(dir) ==
    CASE dir = "Left" -> "Right"
      [] dir = "Right" -> "Left"
      [] dir = "Up" -> "Down"
      [] OTHER -> "Up"

\* C10 as claimed: in the adjacent case the solution has exactly two moves
C10_AdjacentTwoMoves ==
    (pc = "done" /\ AdjacentCase) =>
        IsSome(result) /\ Len(Unwrap(result).moves) = 2

\* C10 as amended: in the adjacent case the solution is the slide to the
\* Goal and the slide back when the board edge stops both slides; when it
\* does not, no solution of two moves is returned
C10_TwoMovesWhenEdgesStop ==
    (pc = "done" /\ AdjacentCase) =>
        IF EdgesStopBothSlides
        THEN /\ IsSome(result)
             /\ Unwrap(result).moves
                    = <<<<"Main", TowardsGoal>>, <<"Main", Opposite(TowardsGoal)>>>>
        ELSE IsSome(result) => Len(Unwrap(result).moves) > 2

\* the two-move solution was returned on a line of two cells
C10_Witness ==
    /\ pc = "done" /\ AdjacentCase /\ EdgesStopBothSlides
    /\ IsSome(result) /\ Len(Unwrap(result).moves) = 2

----------------------------------------------------------------------------
(* Notions of the claims about the move generator *)

\* the packed position of a piece in a solver.rs State
PosOf(state, piece) ==
    CASE piece = "Main" -> state[1]
      [] piece = "HelperOne" -> state[2]
      [] piece = "HelperTwo" -> state[3]

XY(pos) == <<pos_to_x(pos), pos_to_y(pos)>>

\* the cells of the pieces other than piece
OthersXY(state, piece) == { XY(PosOf(state, q)) : q \in PieceType \ {piece} }

\* the coordinates of a piece in a main.rs State
MainXY(state, piece) ==
    CASE piece = "Main" -> <<state[1], state[2]>>
      [] piece = "HelperOne" -> <<state[3], state[4]>>
      [] piece = "HelperTwo" -> <<state[5], state[6]>>

Delta(dir) ==
    CASE dir = "Up" -> <<0, -1>>
      [] dir = "Down" -> <<0, 1>>
      [] dir = "Left" -> <<-1, 0>>
      [] dir = "Right" -> <<1, 0>>

OnBoard(b, c) == c[1] \in 0..(Len(b[1]) - 1) /\ c[2] \in 0..(Len(b) - 1)

\* in bounds, not a Blocker, not the cell of another piece
FreeCell(b, others, c) ==
    OnBoard(b, c) /\ b[c[2] + 1][c[1] + 1] # "Blocker" /\ c \notin others

\* the n-th cell from cell c in direction dir
Ahead(c, dir, n) == <<c[1] + n * Delta(dir)[1], c[2] + n * Delta(dir)[2]>>

\* rest lies n >= 1 cells ahead of from, the n cells up to it are free and
\* the cell after it is not
RestsByRule(b, others, from, dir, rest) ==
    \E n \in 1..(Len(b) + Len(b[1])) :
        /\ rest = Ahead(from, dir, n)
        /\ \A j \in 1..n : FreeCell(b, others, Ahead(from, dir, j))
        /\ ~FreeCell(b, others, Ahead(from, dir, n + 1))

\* the move that gave cur, and the state it was applied to
LastPiece == Unwrap(last).move[1]
LastDir == Unwrap(last).move[2]
LastFrom == Unwrap(last).from

----------------------------------------------------------------------------
(* C11: state well-formedness.  From a valid initial state, every state    *)
(* generated by any sequence of moves keeps every piece inside the board,   *)
(* off the Blocker cells, and no two pieces on the same cell.               *)

WellFormed(b, state) ==
    /\ \A i \in 1..3 : state[i] \in 0..(U8 - 1)
    /\ \A i \in 1..3 : OnBoard(b, XY(state[i]))
    /\ \A i \in 1..3 : CellKind(b, state[i]) # "Blocker"
    /\ \A i, j \in 1..3 : i # j => state[i] # state[j]
    /\ state[4] \in {0, 1}

C11_WellFormed == WellFormed(board, cur)

\* all three pieces have left their initial cells, on a board with a Blocker
C11_Witness ==
    /\ IsSome(last)
    /\ \A i \in 1..3 : cur[i] # init[i]
    /\ \E y \in 1..Len(board) : \E x \in 1..Len(board[1]) : board[y][x] = "Blocker"

----------------------------------------------------------------------------
(* C12: goal monotonicity.  From a state with goal_visited set, every       *)
(* successor that move_piece produces, for any piece and direction, has     *)
(* goal_visited set: the flag never goes from set back to unset.            *)

C12_GoalMonotone ==
    /\ (IsSome(last) /\ LastFrom[4] = 1) => cur[4] = 1
    /\ cur[4] = 1 =>
           \A mv \in AllMoves :
               IsSome(move_piece(board, cur, mv[1], mv[2]))
                   => Unwrap(move_piece(board, cur, mv[1], mv[2]))[4] = 1

\* the main piece moved, with the flag set, to a cell that is not the Goal
C12_Witness ==
    /\ IsSome(last)
    /\ LastPiece = "Main"
    /\ LastFrom[4] = 1
    /\ CellKind(board, cur[1]) # "Goal"

----------------------------------------------------------------------------
(* C13: no self-loop moves.  A piece blocked on its very first step gets    *)
(* no successor from move_piece, and every successor that neighbourhood     *)
(* emits differs from the input state in the position of the moved piece.   *)

C13_NoSelfLoop ==
    /\ \A mv \in AllMoves :
           ~FreeCell(board, OthersXY(cur, mv[1]),
                     Ahead(XY(PosOf(cur, mv[1])), mv[2], 1))
               => move_piece(board, cur, mv[1], mv[2]) = None
    /\ \A succs \in {neighbourhood(board, cur)} :
           \A k \in 1..Len(succs) :
               /\ succs[k][2] # cur
               /\ PosOf(succs[k][2], succs[k][1][1]) # PosOf(cur, succs[k][1][1])

\* after a move: a state in which one piece is blocked in all four
\* directions while another piece can move
C13_Witness ==
    /\ IsSome(last)
    /\ \E piece \in PieceType :
           \A dir \in Direction : move_piece(board, cur, piece, dir) = None
    /\ Len(neighbourhood(board, cur)) > 0

----------------------------------------------------------------------------
(* C14: slide rule.  Whenever a move is produced, the resting cell lies on  *)
(* the straight line from the piece's cell in the direction of the move,    *)
(* every cell up to and including it is in bounds, not a Blocker and not    *)
(* occupied by another piece, and the cell after it is out of bounds, a     *)
(* Blocker or occupied: in solver.rs and in main.rs.                        *)

C14_SlideRule ==
    \A mv \in AllMoves :
        /\ IsSome(move_piece(board, cur, mv[1], mv[2])) =>
               RestsByRule(board, OthersXY(cur, mv[1]), XY(PosOf(cur, mv[1])), mv[2],
                   XY(PosOf(Unwrap(move_piece(board, cur, mv[1], mv[2])), mv[1])))
        /\ IsSome(main_move_piece(main_board, Coordinates(cur), mv[1], mv[2])) =>
               RestsByRule(main_board, OthersXY(cur, mv[1]), XY(PosOf(cur, mv[1])),
                   mv[2],
                   MainXY(Unwrap(main_move_piece(main_board, Coordinates(cur),
                                                 mv[1], mv[2])), mv[1]))

\* a piece has slid across a free cell and rests two cells from where it was,
\* and in the state reached another piece is stopped by a piece
C14_Witness ==
    /\ IsSome(last)
    /\ XY(PosOf(cur, LastPiece)) = Ahead(XY(PosOf(LastFrom, LastPiece)), LastDir, 2)
    /\ \E mv \in AllMoves :
           /\ IsSome(move_piece(board, cur, mv[1], mv[2]))
           /\ Ahead(XY(PosOf(Unwrap(move_piece(board, cur, mv[1], mv[2])), mv[1])),
                    mv[2], 1) \in OthersXY(cur, mv[1])

----------------------------------------------------------------------------
(* C15: frame of a move.  A successor differs from its input state only in  *)
(* the position of the moved piece: the two other pieces stay, and a move   *)
(* of a helper leaves goal_visited as it was, also when the helper comes to *)
(* rest on the Goal cell.                                                   *)

C15_Frame ==
    IsSome(last) =>
        /\ \A q \in PieceType \ {LastPiece} : PosOf(cur, q) = PosOf(LastFrom, q)
        /\ LastPiece # "Main" => cur[4] = LastFrom[4]

\* a helper has come to rest on the Goal cell and goal_visited is unset
C15_Witness ==
    /\ IsSome(last)
    /\ LastPiece # "Main"
    /\ CellKind(board, PosOf(cur, LastPiece)) = "Goal"
    /\ cur[4] = 0

----------------------------------------------------------------------------
(* C16: meaning of goal_visited.  In every state reached from an initial    *)
(* state with the flag unset, the flag is set exactly when, after some move *)
(* on the path from the initial state, the main piece came to rest on a     *)
(* Goal cell; a slide of the main piece across the Goal cell that does not  *)
(* stop on it leaves the flag unset.                                        *)

\* after some move on the path from the root to node i the main piece had
\* come to rest on a Goal cell
RECURSIVE RestedOnGoal(_, _, _)
RestedOnGoal(b, ns, i) ==
    /\ IsSome(ns[i].prev)
    /\ \/ (Unwrap(ns[i].m)[1] = "Main" /\ CellKind(b, ns[i].state[1]) = "Goal")
       \/ RestedOnGoal(b, ns, Unwrap(ns[i].prev))

C16_FlagMeansRested ==
    init[4] = 0 =>
        \A i \in 1..Len(nodes) :
            nodes[i].state[4] = 1 <=> RestedOnGoal(board, nodes, i)

\* node i was made by a slide of the main piece across the Goal cell
SlidAcrossGoal(i) ==
    /\ IsSome(nodes[i].prev)
    /\ Unwrap(nodes[i].m)[1] = "Main"
    /\ \E n \in 2..(Len(board) + Len(board[1])) : \E j \in 1..(n - 1) :
           /\ XY(nodes[i].state[1])
                  = Ahead(XY(nodes[Unwrap(nodes[i].prev)].state[1]),
                          Unwrap(nodes[i].m)[2], n)
           /\ OnBoard(board, Ahead(XY(nodes[Unwrap(nodes[i].prev)].state[1]),
                                   Unwrap(nodes[i].m)[2], j))
           /\ CellKind(board, xy_to_pos(
                  Ahead(XY(nodes[Unwrap(nodes[i].prev)].state[1]),
                        Unwrap(nodes[i].m)[2], j)[1],
                  Ahead(XY(nodes[Unwrap(nodes[i].prev)].state[1]),
                        Unwrap(nodes[i].m)[2], j)[2])) = "Goal"

\* a node made by a slide across the Goal has the flag unset, and another
\* node, made by a move that rests on the Goal, has it set
C16_Witness ==
    /\ \E i \in 1..Len(nodes) : SlidAcrossGoal(i) /\ nodes[i].state[4] = 0
    /\ \E i \in 1..Len(nodes) :
           /\ nodes[i].state[4] = 1
           /\ CellKind(board, nodes[i].state[1]) # "Goal"

----------------------------------------------------------------------------
(* C17: no zero-length solution.  The initial state has goal_visited unset, *)
(* and every solution returned has at least two moves: a move of the main   *)
(* piece that rests on the Goal and a later move of the main piece that     *)
(* rests on the Start.                                                      *)

\* the state after the first n of the returned moves
AfterMoves(n) == Unwrap(Replay(board, init, SubSeq(Unwrap(result).moves, 1, n)))

C17_AtLeastTwoMoves ==
    /\ init[4] = 0
    /\ Solved =>
           /\ Len(Unwrap(result).moves) >= 2
           /\ \E i, j \in 1..Len(Unwrap(result).moves) :
                  /\ i < j
                  /\ Unwrap(result).moves[i][1] = "Main"
                  /\ Unwrap(result).moves[j][1] = "Main"
                  /\ CellKind(board, AfterMoves(i)[1]) = "Goal"
                  /\ CellKind(board, AfterMoves(j)[1]) = "Start"

\* a solution of four moves, one of them a move of a helper
C17_Witness ==
    /\ Solved
    /\ Len(Unwrap(result).moves) = 4
    /\ \E i \in 1..4 : Unwrap(result).moves[i][1] # "Main"

----------------------------------------------------------------------------
(* C18: breadth-first order.  Nodes are dequeued in non-decreasing depth    *)
(* (number of parent links to the root): every node dequeued so far is no   *)
(* deeper than any node of the frontier, the front of the frontier is one   *)
(* of its shallowest nodes, and the depths in the frontier differ by at     *)
(* most one.                                                                *)

\* the number of parent links from node i to the root
RECURSIVE Depth(_, _)
Depth(ns, i) == IF IsSome(ns[i].prev) THEN 1 + Depth(ns, Unwrap(ns[i].prev)) ELSE 0

Frontier == { queue[a] : a \in 1..Len(queue) }

Dequeued == (1..Len(nodes)) \ Frontier

C18_BreadthFirst ==
    \A depth \in {[i \in 1..Len(nodes) |-> Depth(nodes, i)]} :
        /\ \A i \in Dequeued : \A j \in Frontier : depth[i] <= depth[j]
        /\ \A j \in Frontier : depth[queue[1]] <= depth[j]
        /\ \A i, j \in Frontier : depth[i] <= depth[j] + 1

\* a frontier of at least three nodes of two depths, the shallower at least 2
C18_Witness ==
    /\ pc = "search"
    /\ Len(queue) >= 3
    /\ Depth(nodes, queue[1]) >= 2
    /\ Depth(nodes, queue[Len(queue)]) = Depth(nodes, queue[1]) + 1

----------------------------------------------------------------------------
(* C19: depth equals distance.  For every node ever enqueued, the number of *)
(* parent links from the node to the root (the length of Node::moves for    *)
(* it) equals the least number of moves that lead from the initial state to *)
(* the node's state.                                                        *)

\* the least number of slide moves from a state of the frontier to target,
\* n moves having been made to reach the frontier; -1 when there is none
RECURSIVE MovesTo(_, _, _, _, _)
MovesTo(b, frontier, seen, n, target) ==
    IF target \in frontier THEN n
    ELSE IF frontier = {} THEN -1
    ELSE LET next == SlidesFrom(b, frontier) \ seen
         IN  MovesTo(b, next, seen \cup next, n + 1, target)

Distance(state) == MovesTo(board, {init}, {init}, 0, state)

C19_DepthIsDistance ==
    \A i \in 1..Len(nodes) :
        /\ Depth(nodes, i) = Distance(nodes[i].state)
        /\ Len(moves(nodes, i)) = Depth(nodes, i)

----------------------------------------------------------------------------
(* C20: which shortest solution is returned.  Successors are emitted piece  *)
(* by piece in the order Main, HelperOne, HelperTwo and, for each piece, in *)
(* the direction order Left, Right, Up, Down; of several shortest solutions *)
(* solve_puzzle returns the first in the lexicographic order of move        *)
(* sequences that this order of the moves induces.                          *)

\* the moves in the order the claim gives them
ClaimedOrder ==
    << <<"Main", "Left">>, <<"Main", "Right">>, <<"Main", "Up">>, <<"Main", "Down">>,
       <<"HelperOne", "Left">>, <<"HelperOne", "Right">>, <<"HelperOne", "Up">>,
       <<"HelperOne", "Down">>,
       <<"HelperTwo", "Left">>, <<"HelperTwo", "Right">>, <<"HelperTwo", "Up">>,
       <<"HelperTwo", "Down">> >>

\* the move ClaimedOrder[k] starts a solution of n moves from state
StartsSolution(b, state, k, n) ==
    /\ IsSome(move_piece(b, state, ClaimedOrder[k][1], ClaimedOrder[k][2]))
    /\ \A next \in {Unwrap(move_piece(b, state, ClaimedOrder[k][1],
                                         ClaimedOrder[k][2]))} :
           ShortestToGoal(b, {next}, {next}, 0) = n - 1

\* the first, in the lexicographic order, of the solutions of n moves from
\* state, n being the length of the shortest ones
RECURSIVE LexFirst(_, _, _)
LexFirst(b, state, n) ==
    IF n = 0 THEN <<>>
    ELSE LET k == CHOOSE k \in 1..Len(ClaimedOrder) :
                      /\ StartsSolution(b, state, k, n)
                      /\ \A j \in 1..(k - 1) : ~StartsSolution(b, state, j, n)
         IN  <<ClaimedOrder[k]>>
                 \o LexFirst(b, Unwrap(move_piece(b, state, ClaimedOrder[k][1],
                                                   ClaimedOrder[k][2])), n - 1)

C20_LexFirstSolution ==
    /\ \A succs \in {neighbourhood(board, init)} :
           \A i, j \in 1..Len(succs) :
               i < j => \E a, c \in 1..Len(ClaimedOrder) :
                           a < c /\ ClaimedOrder[a] = succs[i][1]
                                 /\ ClaimedOrder[c] = succs[j][1]
    /\ Solved => Unwrap(result).moves = LexFirst(board, init, Shortest)

\* a returned solution beside which there is another shortest one: at some
\* point of it a later move of the order starts a solution just as short
C20_Witness ==
    /\ Solved
    /\ \E i \in 1..Len(Unwrap(result).moves) :
       \E k \in 1..Len(ClaimedOrder) :
           /\ ClaimedOrder[k] # Unwrap(result).moves[i]
           /\ StartsSolution(board, AfterMoves(i - 1), k,
                             Len(Unwrap(result).moves) - (i - 1))

----------------------------------------------------------------------------
(* mainv2.rs: State::next_position and move_piece *)

\* the bounds written into the while-loop and the test after it
MainV2BoardSize == 8

\* Position::new
NewPosition(x, y) == [x |-> x, y |-> y]

\* Piece::new
NewPiece(position, is_main) == [position |-> position, is_main |-> is_main]

\* State::new
NewState(pieces, target, blockers) ==
    [pieces |-> pieces, target |-> target, blockers |-> blockers]

\* the match on direction: (dx, dy)
mainv2_delta(direction) ==
    CASE direction = "Up" -> <<0, -1>>
      [] direction = "Down" -> <<0, 1>>
      [] direction = "Left" -> <<-1, 0>>
      [] direction = "Right" -> <<1, 0>>

\* x >= 0 && x < 8 && y >= 0 && y < 8
mainv2_inside(x, y) ==
    x >= 0 /\ x < MainV2BoardSize /\ y >= 0 /\ y < MainV2BoardSize

\* the while-loop of next_position from (x, y): the values of x and y when
\* it is left, by a break or by its condition
RECURSIVE mainv2_scan(_, _, _, _, _)
mainv2_scan(state, piece, x, y, d) ==
    IF ~mainv2_inside(x, y) THEN <<x, y>>
    ELSE IF NewPosition(x, y) \in state.blockers THEN <<x, y>>
    ELSE IF \E i \in 1..Len(state.pieces) :
                /\ state.pieces[i].position = NewPosition(x, y)
                /\ state.pieces[i] # piece
         THEN <<x, y>>
    ELSE mainv2_scan(state, piece, x + d[1], y + d[2], d)

\* State::next_position
mainv2_next_position(state, piece, direction) ==
    LET d == mainv2_delta(direction)
        xy == mainv2_scan(state, piece, piece.position.x + d[1],
                          piece.position.y + d[2], d)
    IN  IF ~mainv2_inside(xy[1], xy[2]) THEN None
        ELSE Some(NewPosition(xy[1], xy[2]))

\* the for-loop of move_piece: the first piece on the cell of the moved one
\* is given the new position
mainv2_move_piece(state, piece, direction) ==
    LET next == mainv2_next_position(state, piece, direction)
        hit == {i \in 1..Len(state.pieces) :
                    state.pieces[i].position = piece.position}
        first == CHOOSE i \in hit : \A j \in hit : i <= j
    IN  IF ~IsSome(next) THEN None
        ELSE Some(NewState(
                 IF hit = {} THEN state.pieces
                 ELSE [state.pieces EXCEPT ![first].position = Unwrap(next)],
                 state.target, state.blockers))

\* the State built in main()
MainV2Fixture ==
    NewState(<<NewPiece(NewPosition(4, 4), TRUE),
               NewPiece(NewPosition(0, 0), FALSE),
               NewPiece(NewPosition(7, 7), FALSE)>>,
             NewPosition(4, 5), {})

\* coordinates of the cells the pieces and the blocker of a drawn State are
\* on: the two lines along an edge and the edge across
MainV2Near == {0, 1, MainV2BoardSize - 1}

\* three pieces on different cells, the first the Main Piece, and at most
\* one blocker on a cell without a piece
MainV2States ==
    LET cells == {NewPosition(x, y) : x \in MainV2Near, y \in MainV2Near}
    IN  UNION { UNION { UNION {
            { NewState(<<NewPiece(m, TRUE), NewPiece(h1, FALSE),
                         NewPiece(h2, FALSE)>>,
                       NewPosition(4, 5), bl)
              : bl \in {{}} \cup {{c} : c \in cells \ {m, h1, h2}} }
            : h2 \in cells \ {m, h1} }
            : h1 \in cells \ {m} }
            : m \in cells }

InitV2 ==
    /\ v2_state \in MainV2States \cup {MainV2Fixture}
    /\ v2_last = None
    /\ nodes = <<>>
    /\ queue = <<>>
    /\ visited = EmptyTable
    /\ pc = "off"
    /\ result = None
    /\ board = <<>>
    /\ init = <<>>
    /\ MainOff
    /\ WalkOff
    /\ PackOff

\* one turn of the inner loop of next_states: move_piece is called for a
\* piece and a direction, and the State it returns, if any, is taken up
MoveV2 ==
    /\ v2_state # <<>>
    /\ \E direction \in Direction : \E i \in 1..Len(v2_state.pieces) :
           \E moved \in {mainv2_move_piece(v2_state, v2_state.pieces[i],
                                            direction)} :
               /\ v2_last' = Some([piece |-> v2_state.pieces[i],
                                    direction |-> direction,
                                    from |-> v2_state,
                                    next_position |->
                                        mainv2_next_position(v2_state,
                                            v2_state.pieces[i], direction),
                                    moved |-> moved])
               /\ v2_state' = IF IsSome(moved) THEN Unwrap(moved) ELSE v2_state
    /\ UNCHANGED <<solver_vars, main_vars, walk_vars, pack_vars>>

SpecV2 == InitV2 /\ [][MoveV2]_vars

\* no blocker and no other piece is on the cell
MainV2Free(state, piece, position) ==
    /\ mainv2_inside(position.x, position.y)
    /\ position \notin state.blockers
    /\ \A i \in 1..Len(state.pieces) :
           state.pieces[i] # piece => state.pieces[i].position # position

\* the cell a piece comes to rest on when it slides from position: the last
\* one before a blocker, another piece or the edge of the board
RECURSIVE MainV2Rest(_, _, _, _)
MainV2Rest(state, piece, position, d) ==
    LET ahead == NewPosition(position.x + d[1], position.y + d[2])
    IN  IF MainV2Free(state, piece, ahead)
        THEN MainV2Rest(state, piece, ahead, d)
        ELSE position

\* C21: in mainv2.rs, next_position returns the cell the piece reaches when
\* it slides in the direction, stopped by a blocker, by another piece or by
\* the edge of the board, and None only when the piece cannot move that way
\* at all; the cell returned is never a blocker's or another piece's, and a
\* free slide to the edge gives the last cell of the board.
C21_NextPositionSlides ==
    IsSome(v2_last) =>
        LET call == Unwrap(v2_last)
            rest == MainV2Rest(call.from, call.piece, call.piece.position,
                               mainv2_delta(call.direction))
        IN  /\ call.next_position =
                   IF rest = call.piece.position THEN None ELSE Some(rest)
            /\ IsSome(call.next_position) =>
                   MainV2Free(call.from, call.piece, Unwrap(call.next_position))

----------------------------------------------------------------------------
(* solver.rs: solve_puzzle on boards more than ten cells wide or high *)

MaxWide == 11       \* longer side of the boards drawn by InitWide

\* loop iteration whose for-loop comes to a successor with an index outside
\* the visited table: the index operation panics
Panic ==
    /\ pc = "search"
    /\ IsSome(pop_front(queue))
    /\ \E state \in {nodes[Unwrap(pop_front(queue)).front].state} :
           /\ ~sol_found(board, state)
           /\ \E succs \in {neighbourhood(board, state)} : ~IndicesInTable(succs)
    /\ \E s \in {iteration(board, Now)} : Becomes(s)

\* one row of MaxWide cells, or one column of as many
WideSizes == {<<MaxWide, 1>>, <<1, MaxWide>>}

WidePuzzles == UNION { PuzzlesOn(d[1], d[2]) : d \in WideSizes }

InitWide ==
    \E p \in WidePuzzles :
        Start(puzzle_from_string(Text(p))) /\ MainOff /\ OthersOff

NextWide == Return \/ Expand \/ Exhausted \/ Panic

SpecWide == InitWide /\ [][NextWide]_vars

\* C22: the indices of the visited table stay in range on boards up to 16
\* cells wide and 16 high: every State generated during a search has its
\* three packed positions below 160 and goal_visited 0 or 1, so no read or
\* write of the table is out of bounds.
C22_IndicesInRange ==
    /\ pc # "panic"
    /\ \A i \in 2..Len(nodes) : InTable(nodes[i].state)

----------------------------------------------------------------------------
(* solver.rs and tools.rs: packing and unpacking of positions *)

\* x and y have four bits each in a Position
FieldRange == 16

\* the packed position that puzzle_from_string gives the main_robot of a
\* text on a board of FieldRange by FieldRange cells
parsed_position(x, y) ==
    puzzle_from_string(<<Chunk("map", FieldRange, FieldRange),
                         Chunk("main_robot", x, y)>>)[2][1]

InitPack ==
    /\ pack_in \in [x : 0..(FieldRange - 1), y : 0..(FieldRange - 1)]
                    \cup [pos : 0..(U8 - 1)]
    /\ pack_out = None
    /\ nodes = <<>>
    /\ queue = <<>>
    /\ visited = EmptyTable
    /\ pc = "off"
    /\ result = None
    /\ board = <<>>
    /\ init = <<>>
    /\ MainOff
    /\ WalkOff
    /\ V2Off

\* a cell is packed, by xy_to_pos and by the parser, and unpacked again
Pack ==
    /\ pack_out = None
    /\ "x" \in DOMAIN pack_in
    /\ \E pos \in {xy_to_pos(pack_in.x, pack_in.y)} :
           pack_out' = Some([pos |-> pos,
                             parsed |-> parsed_position(pack_in.x, pack_in.y),
                             x |-> pos_to_x(pos),
                             y |-> pos_to_y(pos)])
    /\ UNCHANGED <<solver_vars, main_vars, walk_vars, v2_vars, pack_in>>

\* a Position is unpacked and packed again
Unpack ==
    /\ pack_out = None
    /\ "pos" \in DOMAIN pack_in
    /\ \E x \in {pos_to_x(pack_in.pos)} : \E y \in {pos_to_y(pack_in.pos)} :
           pack_out' = Some([x |-> x, y |-> y, pos |-> xy_to_pos(x, y)])
    /\ UNCHANGED <<solver_vars, main_vars, walk_vars, v2_vars, pack_in>>

NextPack == Pack \/ Unpack

SpecPack == InitPack /\ [][NextPack]_vars

\* C23: packing round-trips.  A cell with x and y in 0..15, packed by
\* xy_to_pos, is unpacked to the same x and y, no other cell has its packed
\* position, and the parser packs it to the same position; a Position of 8
\* bits, unpacked and packed again, is the same Position.
C23_PackingRoundTrips ==
    IsSome(pack_out) =>
        LET out == Unwrap(pack_out)
        IN  IF "x" \in DOMAIN pack_in
            THEN /\ out.x = pack_in.x
                 /\ out.y = pack_in.y
                 /\ out.parsed = out.pos
                 /\ \A x, y \in 0..(FieldRange - 1) :
                        <<x, y>> # <<pack_in.x, pack_in.y>>
                            => xy_to_pos(x, y) # out.pos
            ELSE out.pos = pack_in.pos

\* the last cell of the last column has been packed to the largest Position
C23_Witness ==
    /\ IsSome(pack_out)
    /\ pack_in = [x |-> FieldRange - 1, y |-> FieldRange - 1]
    /\ Unwrap(pack_out).pos = U8 - 1
    /\ Unwrap(pack_out).parsed = U8 - 1

====
